---- MODULE Spec2Model ----
(***************************************************************************)
(* Model of the sea-level scripts: the two polar animators                 *)
(* (animated_sea_level.py = policy "A", polarCoordVisualization.py =       *)
(* policy "B") and the crawler (crawl_hko_sea_level.py).                   *)
(*                                                                         *)
(* Numbers.  Sea levels are integers in millimetres (1.410 m = 1410).      *)
(* Every quotient the code computes is kept as a fraction [num, den]; a    *)
(* fraction with den = 0 is what numpy's float division yields for a zero  *)
(* divisor: 0/0 is NaN, x/0 is an infinity.  Angles are kept in tenths of  *)
(* a turn (angle = k * 2*pi/10).  Code indices are 0-based, sequences here *)
(* are 1-based: row i of the code is element i + 1.                        *)
(***************************************************************************)
EXTENDS Integers, Sequences, FiniteSets, TLC

VARIABLES
    policy,         \* which animator script runs: "A" or "B"
    file,           \* the CSV on disk: [exists, rows]
    pc,             \* position of the animator script
    years,          \* df['Year'].values after dropna
    sea_levels,     \* df['Mean_Sea_Level_m'].values after dropna
    angles,         \* angles array
    radii,          \* radii array
    total_frames,   \* frames = len(years) + 60
    next_frame,     \* position of FuncAnimation's frame iterator
    frame,          \* argument of the last animate() call, -1 before any
    line,           \* line.set_data: sequence of <<angle, radius>>
    points,         \* points.set_offsets: sequence of <<angle, radius>>
    colors,         \* points.set_array
    start_point,    \* start_point.set_data
    current_point,  \* current_point.set_data
    year_texts,     \* the list year_texts
    ax_texts,       \* the text artists attached to the axes by ax.text
    info_text,      \* info_text.set_text
    response,       \* what the endpoint answers to the crawler's GET
    cpc,            \* position of crawl_hko_sea_level_data
    get_count,      \* GET requests sent
    data,           \* data = response.json()
    qub_data,       \* the station found
    df,             \* the DataFrame: rows with their index, sorted by Year
    csv_file,       \* HKO_QUB_SeaLevel_Data_<ts>.csv
    simple_file,    \* HKO_QUB_MeanSeaLevel_Simple_<ts>.csv
    meta_file,      \* HKO_QUB_SeaLevel_Metadata_<ts>.json
    result,         \* the value returned: None or the DataFrame
    reported,       \* the error lines printed
    console,        \* what a plotting script printed about its input
    disk,           \* the files HKO_QUB_SeaLevel_Data_*.csv the analyzer finds
    an_pc,          \* position of the analyzer's main
    an_df,          \* the DataFrame the analyzer loaded
    fig1,           \* the comprehensive figure
    fig2,           \* the tide-component figure
    report,         \* the text report
    outputs         \* the output files saved, in order

avars == <<policy, file, pc, years, sea_levels, angles, radii, total_frames,
           next_frame, frame, line, points, colors, start_point,
           current_point, year_texts, ax_texts, info_text>>

cvars == <<response, cpc, get_count, data, qub_data, df, csv_file,
           simple_file, meta_file, result, reported>>

anvars == <<disk, an_pc, an_df, fig1, fig2, report, outputs>>

nvars == <<console, anvars>>

vars == <<avars, cvars, nvars>>

(* ------------------------------ bounds -------------------------------- *)

MaxRows == 3

MaxRecords == 2

\* years before 2020 that a file of the analyzer can hold
MaxOldYears == 1

\* years of the datasets of the mapping check: two in one decade, two ten
\* years apart
MapYears == {1954, 1955, 1964}

\* years of the datasets that are animated: two decades, one year divisible
\* by 5 and one that is not
AnimYears == {1955, 1964}

\* levels (mm) of the datasets of the mapping check: a minimum, an interior
\* value and a maximum
MapLevels == {1280, 1350, 1510}

\* levels (mm) of the datasets that are animated
AnimLevels == {1300, 1510}

(* --------------------------- small helpers ---------------------------- *)

None == <<>>

Some(v) == <<v>>

Min(a, b) == IF a <= b THEN a ELSE b

SeqsUpTo(S, n) == UNION {[1..k -> S] : k \in 0..n}

Frac(n, d) == [num |-> n, den |-> d]

IsNaN(q) == q.den = 0 /\ q.num = 0

IsFinite(q) == q.den # 0

\* IEEE comparison: false as soon as one side is NaN or the divisor was 0
FracLE(a, b) ==
    /\ IsFinite(a) /\ IsFinite(b)
    /\ IF a.den * b.den > 0 THEN a.num * b.den <= b.num * a.den
                            ELSE a.num * b.den >= b.num * a.den

FracLT(a, b) == FracLE(a, b) /\ ~FracLE(b, a)

FracEQ(a, b) == FracLE(a, b) /\ FracLE(b, a)

FracInt(n) == Frac(n, 1)

\* q + n/d for a float q and constants n, d (d > 0)
FracAdd(q, n, d) == IF q.den = 0 THEN q ELSE Frac(q.num * d + n * q.den, q.den * d)

RECURSIVE SeqMin(_)
SeqMin(s) == IF Len(s) = 1 THEN s[1] ELSE Min(s[1], SeqMin(Tail(s)))

RECURSIVE SeqMax(_)
SeqMax(s) == IF Len(s) = 1 THEN s[1]
             ELSE LET m == SeqMax(Tail(s)) IN IF s[1] >= m THEN s[1] ELSE m

(* ------------------------ load_sea_level_data ------------------------- *)

CsvRow(ys, levels) == [Year : ys, Mean_Sea_Level_m : {None} \cup {Some(l) : l \in levels}]

CsvFiles(ys, levels) ==
    {[exists |-> FALSE, rows |-> <<>>]}
    \cup {[exists |-> TRUE, rows |-> r] : r \in SeqsUpTo(CsvRow(ys, levels), MaxRows)}

NotMissing(row) == row.Mean_Sea_Level_m # None

\* df.dropna(subset=['Mean_Sea_Level_m'])
DropNa(rows) == SelectSeq(rows, NotMissing)

(* ------------------------- coordinate mapping ------------------------- *)

\* a wrong modulus
AngleOf_Mod20(year) == year % 20

\* year % 10, as tenths of a turn
AngleOf(year) == year % 10

\* int(year // 10) - 195
DecadeIndex(year) == (year \div 10) - 195

\* the decade taken with % instead of //
RadiusA_ModDecade(year, level) ==
    Frac(1000 * ((year % 10) - 195 + 1) + (level - 1350) * 5, 1000)

\* policy A, in thousandths: decade + 1 + (level - 1.35) * 5
RadiusA(year, level) == Frac(1000 * (DecadeIndex(year) + 1) + (level - 1350) * 5, 1000)

\* policy B: 1 + ((level - min_level) / (max_level - min_level)) * 4
RadiusB(level, min_level, max_level) ==
    LET q == Frac(level - min_level, max_level - min_level)
    IN  IF q.den = 0 THEN q ELSE Frac(q.den + q.num * 4, q.den)

RadiusOf(p, ys, ls, i) ==
    IF p = "A" THEN RadiusA(ys[i], ls[i])
               ELSE RadiusB(ls[i], SeqMin(ls), SeqMax(ls))

(* ------------------------------ animate ------------------------------- *)

Pt(i) == <<angles[i + 1], radii[i + 1]>>

\* colour of row i: decade / 7 (A), (years[i] - years[0]) / (years[-1] - years[0]) (B)
ColorOf(i) ==
    IF policy = "A" THEN Frac(DecadeIndex(years[i + 1]), 7)
    ELSE Frac(years[i + 1] - years[1], years[Len(years)] - years[1])

\* every 5th index instead of every year divisible by 5
ShouldLabel_ByIndex(i, current_idx) ==
    i = 0 \/ i = current_idx \/ i % 5 = 0

\* if i == 0 or i == current_idx or years[i] % 5 == 0
ShouldLabel(i, current_idx) ==
    i = 0 \/ i = current_idx \/ years[i + 1] % 5 = 0

\* ax.text(label_angle, label_radius, f'{years[i]}')
LabelOf(i) == [point |-> i,
               angle |-> angles[i + 1],
               radius |-> FracAdd(radii[i + 1], 15, 100),
               text |-> years[i + 1]]

RECURSIVE LabelLoop(_, _, _)
LabelLoop(i, current_idx, acc) ==
    IF i > current_idx THEN acc
    ELSE LabelLoop(i + 1, current_idx,
                   IF ShouldLabel(i, current_idx) THEN Append(acc, LabelOf(i)) ELSE acc)

\* the index lags the frame by one
CurrentIdx_Lag(f) == Min(f - 1, Len(years) - 1)

\* the index wraps around instead of holding at the last row
CurrentIdx_Wrap(f) == f % Len(years)

\* current_idx = min(frame, len(years) - 1)
CurrentIdx(f) == Min(f, Len(years) - 1)

\* (current_idx + 1) / len(years) * 100, shown with one decimal
Progress(current_idx) ==
    ((current_idx + 1) * 2000 + Len(years)) \div (2 * Len(years))

InfoStart ==
    [kind |-> "start", year |-> years[1], level |-> sea_levels[1],
     decade |-> (years[1] \div 10) * 10, shown |-> 1, of |-> Len(years)]

InfoCurrent(current_idx) ==
    LET base == [kind |-> "current", year |-> years[current_idx + 1],
                 decade |-> (years[current_idx + 1] \div 10) * 10,
                 year_in_decade |-> years[current_idx + 1] % 10,
                 level |-> sea_levels[current_idx + 1],
                 shown |-> current_idx + 1, of |-> Len(years),
                 progress |-> Progress(current_idx)]
    IN  IF policy = "A" THEN base
        ELSE [r \in {"radius"} |-> radii[current_idx + 1]] @@ base

\* the labels of the previous frame stay on the axes
RemoveAll_KeepAll(artists, removed) == artists

\* for text in year_texts: text.remove()
RemoveAll(artists, removed) ==
    SelectSeq(artists, LAMBDA t : \A k \in 1..Len(removed) : removed[k] # t)

Animate(f) ==
    /\ frame' = f
    /\ IF f = 0
       THEN /\ start_point' = <<Pt(0)>>
            /\ current_point' = <<>>
            /\ line' = <<>>
            /\ points' = <<>>
            /\ colors' = colors
            /\ year_texts' = <<>>
            /\ ax_texts' = RemoveAll(ax_texts, year_texts)
            /\ info_text' = InfoStart
       ELSE LET current_idx == CurrentIdx(f)
                shown == [k \in 1..(current_idx + 1) |-> Pt(k - 1)]
                labels == LabelLoop(0, current_idx, <<>>)
            IN  /\ line' = shown
                /\ IF current_idx >= 0
                   THEN /\ points' = shown
                        /\ colors' = [k \in 1..(current_idx + 1) |-> ColorOf(k - 1)]
                   ELSE UNCHANGED <<points, colors>>
                /\ year_texts' = labels
                /\ ax_texts' = RemoveAll(ax_texts, year_texts) \o labels
                /\ current_point' = <<Pt(current_idx)>>
                /\ start_point' = <<Pt(0)>>
                /\ info_text' = InfoCurrent(current_idx)

(* ------------------- create_animated_polar_chart ---------------------- *)

\* total_frames = len(years) + 60
PauseFrames == 60

\* the crawler is a separate script: it does not run while an animator does
CrawlerIdle ==
    /\ response = [kind |-> "none"]
    /\ cpc = "idle" /\ get_count = 0
    /\ data = <<>> /\ qub_data = <<>> /\ df = <<>>
    /\ csv_file = <<>> /\ simple_file = <<>> /\ meta_file = <<>>
    /\ result = <<>> /\ reported = <<>>

\* the analyzer is a separate script too
AnalyzerIdle ==
    /\ disk = <<>> /\ an_pc = "idle" /\ an_df = <<>>
    /\ fig1 = <<>> /\ fig2 = <<>> /\ report = <<>> /\ outputs = <<>>

rendered == <<line, points, colors, start_point, current_point, year_texts,
              ax_texts, info_text>>

\* an animator script about to run on one of the files
AnimatorStart(ys, levels) ==
    /\ policy \in {"A", "B"}
    /\ file \in CsvFiles(ys, levels)
    /\ pc = "start"
    /\ years = <<>> /\ sea_levels = <<>> /\ angles = <<>> /\ radii = <<>>
    /\ total_frames = 0 /\ next_frame = 0 /\ frame = -1
    /\ line = <<>> /\ points = <<>> /\ colors = <<>>
    /\ start_point = <<>> /\ current_point = <<>>
    /\ year_texts = <<>> /\ ax_texts = <<>>
    /\ info_text = [kind |-> "empty"]

ScriptInit(ys, levels) ==
    /\ AnimatorStart(ys, levels)
    /\ CrawlerIdle
    /\ AnalyzerIdle /\ console = <<>>

\* pd.read_csv raises FileNotFoundError and no except clause catches it
AfterMissingFile_Uncaught == "raised"

\* except FileNotFoundError: print(...); return None -- if df is None: return
AfterMissingFile == "returned"

\* df = load_sea_level_data(); if df is None: return
Load ==
    /\ pc = "start"
    /\ IF ~file.exists
       THEN /\ pc' = AfterMissingFile
            /\ console' = IF AfterMissingFile = "returned"
                          THEN Append(console, "Data file not found!") ELSE console
            /\ UNCHANGED <<years, sea_levels>>
       ELSE LET kept == DropNa(file.rows)
            IN  /\ years' = [i \in 1..Len(kept) |-> kept[i].Year]
                /\ sea_levels' = [i \in 1..Len(kept) |-> kept[i].Mean_Sea_Level_m[1]]
                /\ pc' = "loaded"
                /\ UNCHANGED console
    /\ UNCHANGED <<policy, file, angles, radii, total_frames, next_frame, frame, rendered>>
    /\ UNCHANGED <<cvars, anvars>>

\* the mapping loop, the figure set-up and FuncAnimation(...)
Setup ==
    /\ pc = "loaded"
    /\ angles' = [i \in 1..Len(years) |-> AngleOf(years[i])]
    /\ radii' = [i \in 1..Len(years) |-> RadiusOf(policy, years, sea_levels, i)]
    /\ IF Len(years) = 0
       THEN \* years[-1] (A) and sea_levels.min() (B) raise on an empty array
            /\ pc' = "raised"
            /\ UNCHANGED total_frames
       ELSE /\ pc' = "show"
            /\ total_frames' = Len(years) + PauseFrames
    /\ UNCHANGED <<policy, file, years, sea_levels, next_frame, frame, rendered>>
    /\ UNCHANGED <<cvars, nvars>>

\* plt.show(): the animation's first draw is animate(0)
InitDraw ==
    /\ pc = "show"
    /\ Animate(0)
    /\ pc' = "running"
    /\ next_frame' = 0
    /\ UNCHANGED <<policy, file, years, sea_levels, angles, radii, total_frames>>
    /\ UNCHANGED <<cvars, nvars>>

\* one timer tick: animate(next frame); repeat=True restarts the sequence
Step ==
    /\ pc = "running"
    /\ Animate(next_frame)
    /\ next_frame' = (next_frame + 1) % total_frames
    /\ UNCHANGED <<policy, file, pc, years, sea_levels, angles, radii, total_frames>>
    /\ UNCHANGED <<cvars, nvars>>

AnimInit == ScriptInit(AnimYears, AnimLevels)

AnimNext == Load \/ Setup \/ InitDraw \/ Step

\* an animator script from start to the running animation
SpecAnim == AnimInit /\ [][AnimNext]_vars

\* the frames a call is tried with: the start frame, every reveal frame, the
\* first hold frame and the last frame of the cycle
FrameChoices == (0..Len(years)) \cup {total_frames - 1}

\* animate(frame) called with any of these frames, whatever was drawn before
AnyFrame ==
    /\ pc = "running"
    /\ \E f \in FrameChoices : Animate(f)
    /\ UNCHANGED <<policy, file, pc, years, sea_levels, angles, radii, total_frames,
                   next_frame>>
    /\ UNCHANGED <<cvars, nvars>>

AnyFrameNext == Load \/ Setup \/ InitDraw \/ AnyFrame

\* an animator script whose callback is called in any order of frames
SpecAnyFrame == AnimInit /\ [][AnyFrameNext]_vars

MapInit == ScriptInit(MapYears, MapLevels)

MapNext == Load \/ Setup

\* an animator script up to the computed angles and radii
SpecMap == MapInit /\ [][MapNext]_vars

(* ============================== crawler =============================== *)
(* A JSON string is a sequence of characters, so that int() and float()   *)
(* are computed from the digits.                                          *)

Digits == <<"0", "1", "2", "3", "4", "5", "6", "7", "8", "9">>

IsDigit(c) == \E k \in 1..10 : Digits[k] = c

DigitVal(c) == (CHOOSE k \in 1..10 : Digits[k] = c) - 1

AllDigits(s) == \A i \in 1..Len(s) : IsDigit(s[i])

RECURSIVE DigitsValue(_)
DigitsValue(s) ==
    IF s = <<>> THEN 0
    ELSE DigitsValue(SubSeq(s, 1, Len(s) - 1)) * 10 + DigitVal(s[Len(s)])

RECURSIVE Pow10(_)
Pow10(k) == IF k = 0 THEN 1 ELSE 10 * Pow10(k - 1)

HasSign(s) == Len(s) >= 1 /\ s[1] \in {"+", "-"}

Unsigned(s) == IF HasSign(s) THEN Tail(s) ELSE s

SignOf(s) == IF Len(s) >= 1 /\ s[1] = "-" THEN -1 ELSE 1

\* int(s) for a string: an optional sign and decimal digits; anything else
\* raises ValueError
PyInt(s) ==
    LET u == Unsigned(s)
    IN  IF Len(u) >= 1 /\ AllDigits(u)
        THEN [ok |-> TRUE, value |-> SignOf(s) * DigitsValue(u)]
        ELSE [ok |-> FALSE, value |-> 0]

\* float(s) for a string, in thousandths: an optional sign, digits with at
\* most one decimal point and at least one digit; anything else raises
\* ValueError.  The strings of the payloads have at most three decimals.
PyFloat(s) ==
    LET u == Unsigned(s)
        dots == {i \in 1..Len(u) : u[i] = "."}
        d == IF dots = {} THEN Len(u) + 1 ELSE CHOOSE i \in dots : TRUE
        int_part == SubSeq(u, 1, d - 1)
        frac_part == SubSeq(u, d + 1, Len(u))
    IN  IF /\ Cardinality(dots) <= 1
           /\ AllDigits(int_part) /\ AllDigits(frac_part)
           /\ Len(int_part) + Len(frac_part) >= 1
           /\ Len(frac_part) <= 3
        THEN [ok |-> TRUE,
              value |-> SignOf(s) * (DigitsValue(int_part) * 1000
                          + DigitsValue(frac_part) * Pow10(3 - Len(frac_part)))]
        ELSE [ok |-> FALSE, value |-> 0]

Sentinel == <<"*", "*", "*">>

\* the strings of the payloads
YearStrings == {<<"2", "0", "2", "4">>, <<"1", "9", "5", "4">>, <<"2", "0", "x", "4">>}

MslStrings == {<<"1", ".", "4", "1", "0">>, Sentinel, <<>>, <<"a", "b", "c">>}

TideStrings == {<<<<"1", ".", "7", "5", "0">>, <<"1", ".", "5", "2", "0">>,
                  <<"0", ".", "8", "8", "0">>, <<"0", ".", "6", "5", "0">>>>,
                <<Sentinel, <<"1", ".", "5", "2">>, Sentinel, <<"0", ".", "6", "5", "0">>>>}

\* [year, msl, mhhw, mlhw, mhlw, mllw]
YearRecords == {<<y, m>> \o t : y \in YearStrings, m \in MslStrings, t \in TideStrings}

ExampleRecord ==
    <<<<"2", "0", "2", "4">>, <<"1", ".", "4", "1", "0">>, <<"1", ".", "7", "5", "0">>,
      <<"1", ".", "5", "2", "0">>, <<"0", ".", "8", "8", "0">>, <<"0", ".", "6", "5", "0">>>>

OtherStation == [code |-> "TPK", yearData |-> <<ExampleRecord>>]

QubStations == {[code |-> "QUB", yearData |-> yd] : yd \in SeqsUpTo(YearRecords, MaxRecords)}

StationLists ==
    {<<>>, <<OtherStation>>}
    \cup {<<q>> : q \in QubStations}
    \cup {<<OtherStation, q>> : q \in QubStations}

GoodBody == [json_ok |-> TRUE, has_tide |-> TRUE,
             stations |-> <<[code |-> "QUB", yearData |-> <<ExampleRecord>>]>>]

\* what the endpoint can answer: no connection, an HTTP status with a body;
\* a body is text that is JSON or not, with or without the 'tide' key
Responses ==
    {[kind |-> "conn_error", status |-> 0, body |-> GoodBody]}
    \cup {[kind |-> "http", status |-> st, body |-> GoodBody] : st \in {404, 503}}
    \cup {[kind |-> "http", status |-> 200,
           body |-> [json_ok |-> FALSE, has_tide |-> FALSE, stations |-> <<>>]]}
    \cup {[kind |-> "http", status |-> 200,
           body |-> [json_ok |-> TRUE, has_tide |-> FALSE, stations |-> <<>>]]}
    \cup {[kind |-> "http", status |-> 200,
           body |-> [json_ok |-> TRUE, has_tide |-> TRUE, stations |-> sl]] :
             sl \in StationLists}

(* exception classes and the three except clauses *)

RequestExceptions == {"ConnectionError", "HTTPError", "RequestsJSONDecodeError"}

JSONDecodeErrors == {"RequestsJSONDecodeError", "JSONDecodeError"}

Exceptions == RequestExceptions \cup JSONDecodeErrors
              \cup {"SimplejsonJSONDecodeError", "KeyError", "ValueError"}

\* only the first except clause
Handler_OnlyRequestException(exc) ==
    IF exc \in RequestExceptions THEN "Network error" ELSE "propagates"

\* except requests.RequestException / json.JSONDecodeError / Exception
Handler(exc) ==
    IF exc \in RequestExceptions THEN "Network error"
    ELSE IF exc \in JSONDecodeErrors THEN "JSON parsing error"
    ELSE IF exc \in Exceptions THEN "Unexpected error"
    ELSE "propagates"

\* a failed request is tried again
AfterHandler_Retry(exc) == IF exc \in {"ConnectionError", "HTTPError"} THEN "start" ELSE "returned"

\* every except clause ends in return None
AfterHandler(exc) == "returned"

\* raise exc inside the try block: the matching clause prints and returns None
Raise(exc) ==
    IF Handler(exc) = "propagates"
    THEN /\ cpc' = "raised"
         /\ UNCHANGED <<result, reported>>
    ELSE /\ cpc' = AfterHandler(exc)
         /\ result' = None
         /\ reported' = Append(reported, Handler(exc))

\* float(x) if x else None, after x = field if field != '***' else None,
\* without the comparison with '***'
ConvertField_NoSentinel(s) ==
    IF s = <<>> THEN [ok |-> TRUE, value |-> None]
    ELSE IF PyFloat(s).ok THEN [ok |-> TRUE, value |-> Some(PyFloat(s).value)]
    ELSE [ok |-> FALSE, value |-> None]

\* x = field if field != '***' else None;  float(x) if x else None
ConvertField(s) ==
    LET x == IF s # Sentinel THEN Some(s) ELSE None
    IN  IF x = None \/ x[1] = <<>> THEN [ok |-> TRUE, value |-> None]
        ELSE IF PyFloat(x[1]).ok THEN [ok |-> TRUE, value |-> Some(PyFloat(x[1]).value)]
        ELSE [ok |-> FALSE, value |-> None]

\* the record with positions 2 and 3 exchanged
RecordOf_Swapped(index, rec) ==
    [index |-> index,
     Year |-> PyInt(rec[1]).value,
     Mean_Sea_Level_m |-> ConvertField(rec[2]).value,
     Mean_Higher_High_Water_m |-> ConvertField(rec[4]).value,
     Mean_Lower_High_Water_m |-> ConvertField(rec[3]).value,
     Mean_Higher_Low_Water_m |-> ConvertField(rec[5]).value,
     Mean_Lower_Low_Water_m |-> ConvertField(rec[6]).value]

\* processed_data.append({...}); index is the row's position in the DataFrame
RecordOf(index, rec) ==
    [index |-> index,
     Year |-> PyInt(rec[1]).value,
     Mean_Sea_Level_m |-> ConvertField(rec[2]).value,
     Mean_Higher_High_Water_m |-> ConvertField(rec[3]).value,
     Mean_Lower_High_Water_m |-> ConvertField(rec[4]).value,
     Mean_Higher_Low_Water_m |-> ConvertField(rec[5]).value,
     Mean_Lower_Low_Water_m |-> ConvertField(rec[6]).value]

\* only int(year) is checked
RecordRaises_YearOnly(rec) == ~PyInt(rec[1]).ok

\* int(year) or one of the float(...) raises ValueError
RecordRaises(rec) ==
    \/ ~PyInt(rec[1]).ok
    \/ \E p \in 2..6 : ~ConvertField(rec[p]).ok

\* the rows in the order of the payload
SortedByYear_Unsorted(rows) == {rows}

\* df.sort_values('Year'): the default sort is not stable, so rows of equal
\* Year come in any order
SortedByYear(rows) ==
    {s \in [1..Len(rows) -> {rows[k] : k \in 1..Len(rows)}] :
        /\ \A k \in 1..Len(rows) : \E j \in 1..Len(s) : s[j] = rows[k]
        /\ \A j \in 1..(Len(s) - 1) : s[j].Year <= s[j + 1].Year}

\* to_csv(index=False): the row without its index
CsvLine(row) ==
    <<row.Year, row.Mean_Sea_Level_m, row.Mean_Higher_High_Water_m,
      row.Mean_Lower_High_Water_m, row.Mean_Higher_Low_Water_m,
      row.Mean_Lower_Low_Water_m>>

HasMsl(row) == row.Mean_Sea_Level_m # None

\* df[['Year', 'Mean_Sea_Level_m']].dropna() with the rows of missing level kept
SimpleRows_NoDropNa(rows) ==
    [k \in 1..Len(rows) |-> <<rows[k].Year, rows[k].Mean_Sea_Level_m>>]

\* df[['Year', 'Mean_Sea_Level_m']].copy().dropna()
SimpleRows(rows) ==
    LET kept == SelectSeq(rows, HasMsl)
    IN  [k \in 1..Len(kept) |-> <<kept[k].Year, kept[k].Mean_Sea_Level_m>>]

AnimatorIdle ==
    /\ policy = "none" /\ file = [exists |-> FALSE, rows |-> <<>>]
    /\ pc = "idle"
    /\ years = <<>> /\ sea_levels = <<>> /\ angles = <<>> /\ radii = <<>>
    /\ total_frames = 0 /\ next_frame = 0 /\ frame = -1
    /\ line = <<>> /\ points = <<>> /\ colors = <<>>
    /\ start_point = <<>> /\ current_point = <<>>
    /\ year_texts = <<>> /\ ax_texts = <<>>
    /\ info_text = [kind |-> "empty"]

CrawlInit ==
    /\ response \in Responses
    /\ cpc = "start" /\ get_count = 0
    /\ data = <<>> /\ qub_data = <<>> /\ df = <<>>
    /\ csv_file = <<>> /\ simple_file = <<>> /\ meta_file = <<>>
    /\ result = <<>> /\ reported = <<>>
    /\ AnimatorIdle
    /\ AnalyzerIdle /\ console = <<>>

\* response = requests.get(xml_url, headers=headers); response.raise_for_status()
Request ==
    /\ cpc = "start"
    /\ get_count' = get_count + 1
    /\ IF response.kind = "conn_error" THEN Raise("ConnectionError")
       ELSE IF response.status >= 400 /\ response.status < 600 THEN Raise("HTTPError")
       ELSE /\ cpc' = "got"
            /\ UNCHANGED <<result, reported>>
    /\ UNCHANGED <<response, data, qub_data, df, csv_file, simple_file, meta_file>>
    /\ UNCHANGED <<avars, nvars>>

\* data = response.json(): the class raised on a body that is not JSON
\* depends on the installed requests
ParseJson ==
    /\ cpc = "got"
    /\ IF ~response.body.json_ok
       THEN /\ \E exc \in {"RequestsJSONDecodeError", "JSONDecodeError",
                           "SimplejsonJSONDecodeError"} : Raise(exc)
            /\ UNCHANGED data
       ELSE /\ data' = <<response.body>>
            /\ cpc' = "parsed"
            /\ UNCHANGED <<result, reported>>
    /\ UNCHANGED <<response, get_count, qub_data, df, csv_file, simple_file, meta_file>>
    /\ UNCHANGED <<avars, nvars>>

\* stations = data['tide']['data'] and the search for code 'QUB'
FindStation ==
    /\ cpc = "parsed"
    /\ IF ~data[1].has_tide
       THEN /\ Raise("KeyError")
            /\ UNCHANGED qub_data
       ELSE LET stations == data[1].stations
                hits == {k \in 1..Len(stations) : stations[k].code = "QUB"}
            IN  IF hits = {}
                THEN /\ reported' = Append(reported, "QUB station data not found")
                     /\ result' = None
                     /\ cpc' = "returned"
                     /\ UNCHANGED qub_data
                ELSE /\ qub_data' = <<stations[CHOOSE k \in hits : \A j \in hits : k <= j]>>
                     /\ cpc' = "found"
                     /\ UNCHANGED <<result, reported>>
    /\ UNCHANGED <<response, get_count, data, df, csv_file, simple_file, meta_file>>
    /\ UNCHANGED <<avars, nvars>>

\* the loop over qub_data['yearData'], pd.DataFrame(processed_data) and
\* df.sort_values('Year')
Process ==
    /\ cpc = "found"
    /\ LET yd == qub_data[1].yearData
       IN  IF \E k \in 1..Len(yd) : RecordRaises(yd[k])
           THEN /\ Raise("ValueError")
                /\ UNCHANGED df
           ELSE IF Len(yd) = 0
           THEN \* a DataFrame built from no rows has no 'Year' column
                /\ Raise("KeyError")
                /\ UNCHANGED df
           ELSE /\ df' \in SortedByYear([k \in 1..Len(yd) |-> RecordOf(k - 1, yd[k])])
                /\ cpc' = "processed"
                /\ UNCHANGED <<result, reported>>
    /\ UNCHANGED <<response, get_count, data, qub_data, csv_file, simple_file, meta_file>>
    /\ UNCHANGED <<avars, nvars>>

\* df.to_csv(csv_filename, index=False)
WriteCsv ==
    /\ cpc = "processed"
    /\ csv_file' = <<[k \in 1..Len(df) |-> CsvLine(df[k])]>>
    /\ cpc' = "csv_written"
    /\ UNCHANGED <<response, get_count, data, qub_data, df, simple_file, meta_file,
                   result, reported>>
    /\ UNCHANGED <<avars, nvars>>

\* simple_df.to_csv(simple_csv_filename, index=False)
WriteSimple ==
    /\ cpc = "csv_written"
    /\ simple_file' = <<SimpleRows(df)>>
    /\ cpc' = "simple_written"
    /\ UNCHANGED <<response, get_count, data, qub_data, df, csv_file, meta_file,
                   result, reported>>
    /\ UNCHANGED <<avars, nvars>>

\* json.dump(metadata, f); return df
WriteMetaAndReturn ==
    /\ cpc = "simple_written"
    /\ meta_file' = <<[station_code |-> "QUB", total_records |-> Len(df),
                       year_range |-> <<df[1].Year, df[Len(df)].Year>>]>>
    /\ result' = Some(df)
    /\ cpc' = "returned"
    /\ UNCHANGED <<response, get_count, data, qub_data, df, csv_file, simple_file,
                   reported>>
    /\ UNCHANGED <<avars, nvars>>

CrawlNext == Request \/ ParseJson \/ FindStation \/ Process \/ WriteCsv
             \/ WriteSimple \/ WriteMetaAndReturn

\* one run of crawl_hko_sea_level_data against one answer of the endpoint
SpecCrawl == CrawlInit /\ [][CrawlNext]_vars

(* ============================== analyzer ============================== *)
(* Levels are in mm; a slope is a fraction in mm per year, 0/0 being NaN.  *)

\* the two years that the statistics panel and the key findings look up
Year2020 == 2020

Year2024 == 2024

\* the mean sea level (mm) of each year of the files
LevelOf(y) ==
    CASE y = 2020 -> 1300
      [] y = 2021 -> 1320
      [] y = 2022 -> 1350
      [] y = 2023 -> 1330
      [] y = 2024 -> 1380
      [] OTHER -> 1290 - 10 * (2019 - y)

\* what a year's row holds: nothing missing, only the mean sea level, all but
\* the mean sea level, all but the lower high water; or no row at all
Kinds == {"absent", "full", "msl_only", "no_msl", "no_mlhw"}

OldKinds == {"absent", "full", "no_msl"}

\* a line of the detailed CSV as read_csv gives it: an empty cell is NaN
RowOfKind(y, kind) ==
    [Year |-> y,
     Mean_Sea_Level_m |-> IF kind = "no_msl" THEN None ELSE Some(LevelOf(y)),
     Mean_Higher_High_Water_m |-> IF kind = "msl_only" THEN None ELSE Some(LevelOf(y) + 340),
     Mean_Lower_High_Water_m |->
         IF kind \in {"msl_only", "no_mlhw"} THEN None ELSE Some(LevelOf(y) + 110),
     Mean_Higher_Low_Water_m |-> IF kind = "msl_only" THEN None ELSE Some(LevelOf(y) - 530),
     Mean_Lower_Low_Water_m |-> IF kind = "msl_only" THEN None ELSE Some(LevelOf(y) - 760)]

CandidateYears == (Year2020 - MaxOldYears)..Year2024

KindMaps == {k \in [CandidateYears -> Kinds] : \A y \in CandidateYears :
                                                  y < Year2020 => k[y] \in OldKinds}

\* the rows in ascending order of year, as the crawler writes them
RECURSIVE RowsFrom(_, _)
RowsFrom(y, k) ==
    IF y > Year2024 THEN <<>>
    ELSE (IF k[y] = "absent" THEN <<>> ELSE <<RowOfKind(y, k[y])>>) \o RowsFrom(y + 1, k)

DataFiles == {RowsFrom(Year2020 - MaxOldYears, k) : k \in KindMaps}

\* an older file next to the latest one
StaleFile == [ctime |-> 1, rows |-> <<RowOfKind(2019, "full")>>]

\* the directory: no matching file, one file, or a newer file and a stale one
Disks ==
    {<<>>}
    \cup {<<[ctime |-> 2, rows |-> r]>> : r \in DataFiles}
    \cup {<<StaleFile, [ctime |-> 2, rows |-> RowsFrom(Year2020, [y \in Year2020..Year2024 |-> "full"])]>>,
          <<[ctime |-> 2, rows |-> RowsFrom(Year2020, [y \in Year2020..Year2024 |-> "full"])], StaleFile>>}

\* max(csv_files, key=os.path.getctime)
LatestFile(files) ==
    files[CHOOSE i \in 1..Len(files) : \A j \in 1..Len(files) : files[j].ctime <= files[i].ctime]

RECURSIVE SumSeq(_)
SumSeq(s) == IF Len(s) = 0 THEN 0 ELSE s[1] + SumSeq(Tail(s))

YearsOf(rows) == [i \in 1..Len(rows) |-> rows[i].Year]

LevelsOf(rows) == [i \in 1..Len(rows) |-> rows[i].Mean_Sea_Level_m]

\* np.polyfit(x, y, 1)[0] for a non-empty x of distinct years: NaN as soon as
\* one y is NaN; the least-squares slope for two points or more; for one
\* point the minimum-norm solution of the scaled system, y / (2 x)
PolyfitSlope(xs, ys) ==
    LET n == Len(xs)
        v == [i \in 1..n |-> IF ys[i] = None THEN 0 ELSE ys[i][1]]
    IN  IF \E i \in 1..n : ys[i] = None THEN Frac(0, 0)
        ELSE IF n = 1 THEN Frac(v[1], 2 * xs[1])
        ELSE Frac(n * SumSeq([i \in 1..n |-> xs[i] * v[i]]) - SumSeq(xs) * SumSeq(v),
                  n * SumSeq([i \in 1..n |-> xs[i] * xs[i]]) - SumSeq(xs) * SumSeq(xs))

\* sea_level.diff(): NaN for the first row and next to a missing value
Diff(ys) ==
    [i \in 1..Len(ys) |->
        IF i = 1 \/ ys[i] = None \/ ys[i - 1] = None THEN None
        ELSE Some(ys[i][1] - ys[i - 1][1])]

HasTides(row) ==
    row.Mean_Higher_High_Water_m # None /\ row.Mean_Lower_Low_Water_m # None

\* df.dropna(subset=['Mean_Higher_High_Water_m', 'Mean_Lower_Low_Water_m'])
CompleteData(rows) == SelectSeq(rows, HasTides)

\* (df['Year'] // 10) * 10
DecadeOf(year) == (year \div 10) * 10

Decades(rows) == {DecadeOf(rows[i].Year) : i \in 1..Len(rows)}

\* the rows of the group, missing or not
DecadeCount_Rows(rows, d) ==
    Cardinality({i \in 1..Len(rows) : DecadeOf(rows[i].Year) = d})

\* agg 'count': the non-missing values of the group
DecadeCount(rows, d) ==
    Cardinality({i \in 1..Len(rows) :
                    DecadeOf(rows[i].Year) = d /\ rows[i].Mean_Sea_Level_m # None})

\* agg 'mean': over the non-missing values, NaN when there is none
DecadeMean(rows, d) ==
    Frac(SumSeq([i \in 1..Len(rows) |->
                    IF DecadeOf(rows[i].Year) = d /\ rows[i].Mean_Sea_Level_m # None
                    THEN rows[i].Mean_Sea_Level_m[1] ELSE 0]),
         DecadeCount(rows, d))

\* more than 5 years
DecadeShown_MoreThan5(count) == count > 5

\* count >= 5
DecadeShown(count) == count >= 5

\* decade_stats[decade_stats['count'] >= 5], and the loop of the report
DecadeStats(rows) ==
    {[decade |-> d, mean |-> DecadeMean(rows, d), count |-> DecadeCount(rows, d)] :
        d \in {e \in Decades(rows) : DecadeShown(DecadeCount(rows, e))}}

LevelColumns == {"Mean_Sea_Level_m", "Mean_Higher_High_Water_m", "Mean_Lower_High_Water_m",
                 "Mean_Higher_Low_Water_m", "Mean_Lower_Low_Water_m"}

\* DataFrame.corr() leaves out, for each pair of columns, the rows where one
\* of the two is missing: the years that enter each entry of the matrix
CorrRows(rows) ==
    [a \in LevelColumns |-> [b \in LevelColumns |->
        {rows[i].Year : i \in {j \in 1..Len(rows) : rows[j][a] # None /\ rows[j][b] # None}}]]

HasYear(rows, y) == \E i \in 1..Len(rows) : rows[i].Year = y

\* the level of the first row of year y
LevelIn(rows, y) ==
    rows[CHOOSE i \in 1..Len(rows) : rows[i].Year = y
                                     /\ \A j \in 1..(i - 1) : rows[j].Year # y].Mean_Sea_Level_m

\* what raises in create_comprehensive_analysis: polyfit of an empty vector,
\* idxmax of a column with no value, .iloc[0] of the empty selection of the
\* rows of 2020 or of 2024
ComprehensiveRaises(rows) ==
    \/ Len(rows) = 0
    \/ \A i \in 1..Len(rows) : rows[i].Mean_Sea_Level_m = None
    \/ ~HasYear(rows, Year2020)
    \/ ~HasYear(rows, Year2024)

\* the analyzer about to run on one of the directories
AnalyzerStart(disks) ==
    /\ disk \in disks
    /\ an_pc = "start" /\ an_df = <<>>
    /\ fig1 = <<>> /\ fig2 = <<>> /\ report = <<>> /\ outputs = <<>>

AnalyzeInit ==
    /\ AnalyzerStart(Disks)
    /\ console = <<>>
    /\ AnimatorIdle /\ CrawlerIdle

\* df = load_latest_data(); if df is None: return
LoadLatest ==
    /\ an_pc = "start"
    /\ IF Len(disk) = 0
       THEN /\ console' = Append(console, "No data files found")
            /\ an_pc' = "returned"
            /\ UNCHANGED an_df
       ELSE /\ an_df' = LatestFile(disk).rows
            /\ an_pc' = "loaded"
            /\ UNCHANGED console
    /\ UNCHANGED <<disk, fig1, fig2, report, outputs>>
    /\ UNCHANGED <<avars, cvars>>

\* fig1 = create_comprehensive_analysis(df)
Comprehensive ==
    /\ an_pc = "loaded"
    /\ IF ComprehensiveRaises(an_df)
       THEN /\ an_pc' = "raised"
            /\ UNCHANGED fig1
       ELSE LET recent == SelectSeq(an_df, LAMBDA r : r.Year >= 1995)
                complete == CompleteData(an_df)
            IN  /\ fig1' = <<[slope |-> PolyfitSlope(YearsOf(an_df), LevelsOf(an_df)),
                               recent_slope |-> PolyfitSlope(YearsOf(recent), LevelsOf(recent)),
                               change |-> Diff(LevelsOf(an_df)),
                               decades |-> DecadeStats(an_df),
                               level_2020 |-> LevelIn(an_df, Year2020),
                               level_2024 |-> LevelIn(an_df, Year2024),
                               complete_years |-> Len(complete)]>>
                /\ an_pc' = "fig1_made"
    /\ UNCHANGED <<console, disk, an_df, fig2, report, outputs>>
    /\ UNCHANGED <<avars, cvars>>

\* filename1 = save_visualization(fig1, "HKO_Comprehensive_SeaLevel_Analysis")
SaveComprehensive ==
    /\ an_pc = "fig1_made"
    /\ outputs' = Append(outputs, "HKO_Comprehensive_SeaLevel_Analysis.png")
    /\ an_pc' = "fig1_saved"
    /\ UNCHANGED <<console, disk, an_df, fig1, fig2, report>>
    /\ UNCHANGED <<avars, cvars>>

\* fig2 = create_tide_components_analysis(df)
TideComponents ==
    /\ an_pc = "fig1_saved"
    /\ LET complete == CompleteData(an_df)
       IN  IF Len(complete) = 0
           THEN /\ console' = Append(console, "No complete tidal data available")
                /\ fig2' = None
                /\ an_pc' = "fig2_none"
           ELSE /\ fig2' = <<[years |-> YearsOf(complete), corr |-> CorrRows(complete)]>>
                /\ an_pc' = "fig2_made"
                /\ UNCHANGED console
    /\ UNCHANGED <<disk, an_df, fig1, report, outputs>>
    /\ UNCHANGED <<avars, cvars>>

\* if fig2: filename2 = save_visualization(fig2, "HKO_Detailed_Tidal_Analysis")
SaveTide ==
    /\ an_pc = "fig2_made"
    /\ outputs' = Append(outputs, "HKO_Detailed_Tidal_Analysis.png")
    /\ an_pc' = "fig2_saved"
    /\ UNCHANGED <<console, disk, an_df, fig1, fig2, report>>
    /\ UNCHANGED <<avars, cvars>>

\* report_file = generate_summary_report(df)
SummaryReport ==
    /\ an_pc \in {"fig2_none", "fig2_saved"}
    /\ report' = <<[slope |-> PolyfitSlope(YearsOf(an_df), LevelsOf(an_df)),
                     decades |-> DecadeStats(an_df),
                     total_records |-> Len(an_df),
                     complete_years |-> Len(CompleteData(an_df))]>>
    /\ outputs' = Append(outputs, "HKO_SeaLevel_Analysis_Report.txt")
    /\ an_pc' = "reported"
    /\ UNCHANGED <<console, disk, an_df, fig1, fig2>>
    /\ UNCHANGED <<avars, cvars>>

\* plt.show() and the key findings: main returns
Finish ==
    /\ an_pc = "reported"
    /\ an_pc' = IF HasYear(an_df, Year2024) THEN "done" ELSE "raised"
    /\ UNCHANGED <<console, disk, an_df, fig1, fig2, report, outputs>>
    /\ UNCHANGED <<avars, cvars>>

AnalyzeNext == LoadLatest \/ Comprehensive \/ SaveComprehensive \/ TideComponents
               \/ SaveTide \/ SummaryReport \/ Finish

\* one run of the analyzer's main on one state of the directory
SpecAnalyze == AnalyzeInit /\ [][AnalyzeNext]_vars

(* ------------------------ the plotting scripts ------------------------- *)

\* the directories of the joint run: no matching file, the five years 2020
\* to 2024 complete, the same with the mean sea level only
PlotDisks ==
    {<<>>}
    \cup {<<[ctime |-> 2, rows |-> RowsFrom(Year2020, [y \in Year2020..Year2024 |-> kind])]>> :
             kind \in {"full", "msl_only"}}

\* an animator and the analyzer started in the same directory, each on its
\* own input file, present or not
PlotInit ==
    /\ AnimatorStart({1955}, {1300})
    /\ AnalyzerStart(PlotDisks)
    /\ console = <<>>
    /\ CrawlerIdle

PlotNext == AnimNext \/ AnalyzeNext

\* the two processes run side by side up to their return
SpecPlot == PlotInit /\ [][PlotNext]_vars

(* ====================== properties of the animators =================== *)

Mapped == pc = "show"

Rows == 1..Len(years)

\* C1: policy B: in every loaded dataset with at least one row, every radius
\* lies in [1, 5], is exactly 1 at the minimum level and exactly 5 at the
\* maximum level.
C1_RadiusB_Range ==
    (Mapped /\ policy = "B" /\ Len(years) >= 1) =>
        \A i \in Rows :
            /\ FracLE(FracInt(1), radii[i]) /\ FracLE(radii[i], FracInt(5))
            /\ sea_levels[i] = SeqMin(sea_levels) => FracEQ(radii[i], FracInt(1))
            /\ sea_levels[i] = SeqMax(sea_levels) => FracEQ(radii[i], FracInt(5))

\* C1, what the code does: the range holds exactly when two levels differ;
\* when all levels are equal every radius is 0/0 (NaN).
C1_RadiusB_RangeWhenSpread ==
    (Mapped /\ policy = "B" /\ Len(years) >= 1) =>
        IF SeqMin(sea_levels) < SeqMax(sea_levels)
        THEN \A i \in Rows :
                /\ FracLE(FracInt(1), radii[i]) /\ FracLE(radii[i], FracInt(5))
                /\ sea_levels[i] = SeqMin(sea_levels) => FracEQ(radii[i], FracInt(1))
                /\ sea_levels[i] = SeqMax(sea_levels) => FracEQ(radii[i], FracInt(5))
        ELSE \A i \in Rows : IsNaN(radii[i])

\* C2: policy A: for equal years a higher level gives a strictly larger
\* radius, and for equal levels a year ten later gives the radius plus 1.
C2_RadiusA_Monotone ==
    (Mapped /\ policy = "A") =>
        \A i, j \in Rows :
            /\ (years[i] = years[j] /\ sea_levels[i] < sea_levels[j])
                  => FracLT(radii[i], radii[j])
            /\ (years[j] = years[i] + 10 /\ sea_levels[i] = sea_levels[j])
                  => FracEQ(radii[j], FracAdd(radii[i], 1, 1))

C2_Witness ==
    /\ Mapped /\ policy = "A"
    /\ \E i, j \in Rows : years[i] = years[j] /\ sea_levels[i] < sea_levels[j]
    /\ \E i, j \in Rows : years[j] = years[i] + 10 /\ sea_levels[i] = sea_levels[j]

\* C3: in both scripts the angle depends only on year mod 10: years ten
\* apart get the same angle, years of one decade with different last
\* digits get different angles, and every angle lies in [0, 2*pi).
C3_AnglePeriodic ==
    Mapped =>
        \A i, j \in Rows :
            /\ angles[i] \in 0..9
            /\ years[j] = years[i] + 10 => angles[i] = angles[j]
            /\ (years[i] \div 10 = years[j] \div 10 /\ years[i] # years[j])
                  => angles[i] # angles[j]

C3_Witness ==
    /\ Mapped
    /\ \E i, j \in Rows : years[j] = years[i] + 10
    /\ \E i, j \in Rows : years[i] \div 10 = years[j] \div 10 /\ years[i] # years[j]

Running == pc = "running"

N == Len(years)

\* the rows with code indices 0..c, as <<angle, radius>> pairs
RowsUpTo(c) == [k \in 1..(c + 1) |-> <<angles[k], radii[k]>>]

\* points on screen: the start marker alone in frame 0, the scatter afterwards
Visible == IF frame = 0 THEN Len(start_point) ELSE Len(points)

C4_Frames ==
    Running =>
        /\ frame = 0 =>
              /\ start_point = <<<<angles[1], radii[1]>>>>
              /\ line = <<>> /\ points = <<>> /\ current_point = <<>>
              /\ year_texts = <<>> /\ ax_texts = <<>>
        /\ frame >= 1 =>
              /\ line = RowsUpTo(Min(frame, N - 1))
              /\ points = RowsUpTo(Min(frame, N - 1))
              /\ current_point = <<RowsUpTo(Min(frame, N - 1))[Min(frame, N - 1) + 1]>>

\* C4: frame 0 shows only the first point (no line, scatter, current marker
\* or labels); in every frame f >= 1 the line and the scatter are the rows
\* 0..min(f, N-1) and the current marker is row min(f, N-1); the number of
\* visible points never decreases from frame 0 to the end of a cycle.
C4_Reveal ==
    /\ [] C4_Frames
    /\ [][(Running /\ frame' # 0) => Visible' >= Visible]_vars

C4_Witness == Running /\ N = 3 /\ frame = 1 /\ Len(line) = 2

\* a step of the hold: from frame `from` on, the next frame (>= N) renders
\* the same state
HoldStep(from) ==
    (Running /\ frame >= from /\ frame' >= N) => rendered' = rendered

Max(a, b) == IF a >= b THEN a ELSE b

\* C5 as stated: N + 60 frames per cycle, and every frame f >= N renders the
\* state of frame N - 1.
C5_HoldFromLastReveal ==
    /\ [](Running => total_frames = N + 60 /\ frame \in 0..(total_frames - 1))
    /\ [][HoldStep(N - 1)]_vars

\* C5 (amended): N + 60 frames per cycle, and every frame f >= N renders the
\* state of frame max(N - 1, 1): the last reveal frame when N >= 2, frame 1
\* when N = 1 (frame 0 is then the start-only frame).
C5_Hold ==
    /\ [](Running => total_frames = N + 60 /\ frame \in 0..(total_frames - 1))
    /\ [][HoldStep(Max(N - 1, 1))]_vars

C5_Witness == Running /\ N = 2 /\ frame = total_frames - 1 /\ Len(line) = 2

LabelledPoints == {year_texts[k].point : k \in 1..Len(year_texts)}

\* one label per labelled point, in row order, at the point, reading its year
LabelsWellFormed ==
    /\ Cardinality(LabelledPoints) = Len(year_texts)
    /\ \A k \in 1..Len(year_texts) :
          /\ k > 1 => year_texts[k - 1].point < year_texts[k].point
          /\ year_texts[k].text = years[year_texts[k].point + 1]
          /\ year_texts[k].angle = angles[year_texts[k].point + 1]
    /\ ax_texts = year_texts

\* C6 as stated: point i is labelled exactly when it is the first or the
\* last visible point or every 5th data point.
C6_LabelsEveryFifthPoint ==
    (Running /\ frame >= 1) =>
        /\ LabelsWellFormed
        /\ \A i \in 0..Min(frame, N - 1) :
              i \in LabelledPoints <=> (i = 0 \/ i = Min(frame, N - 1) \/ i % 5 = 0)

\* C6 (amended): point i is labelled exactly when it is the first or the
\* last visible point or its year is divisible by 5.
C6_LabelsEveryFifthYear ==
    (Running /\ frame >= 1) =>
        /\ LabelsWellFormed
        /\ LabelledPoints \subseteq 0..Min(frame, N - 1)
        /\ \A i \in 0..Min(frame, N - 1) :
              i \in LabelledPoints <=>
                  (i = 0 \/ i = Min(frame, N - 1) \/ years[i + 1] % 5 = 0)

C6_Witness ==
    /\ Running /\ N = 3 /\ frame = 2
    /\ years[2] % 5 = 0 /\ 1 \in LabelledPoints

\* what the claim lists of the rendered state
Shown == <<line, points, start_point, current_point, info_text, year_texts, ax_texts>>

LastShown(f) == IF N - 1 <= f THEN N - 1 ELSE f

LabelIdx(f) == {i \in 0..LastShown(f) : i = 0 \/ i = LastShown(f) \/ years[i + 1] % 5 = 0}

\* the labels of frame f, in row order
LabelsAt(f) ==
    LET nth(k) == CHOOSE i \in LabelIdx(f) : Cardinality({j \in LabelIdx(f) : j < i}) = k - 1
    IN  [k \in 1..Cardinality(LabelIdx(f)) |->
            [point |-> nth(k), angle |-> angles[nth(k) + 1],
             radius |-> FracAdd(radii[nth(k) + 1], 15, 100), text |-> years[nth(k) + 1]]]

PointsAt(f) == [k \in 1..(LastShown(f) + 1) |-> <<angles[k], radii[k]>>]

\* the rendered state of frame f, from f and the dataset alone
ShownAt(f) ==
    IF f = 0
    THEN <<<<>>, <<>>, <<<<angles[1], radii[1]>>>>, <<>>, InfoStart, <<>>, <<>>>>
    ELSE <<PointsAt(f), PointsAt(f), <<<<angles[1], radii[1]>>>>,
           <<<<angles[LastShown(f) + 1], radii[LastShown(f) + 1]>>>>,
           InfoCurrent(LastShown(f)), LabelsAt(f), LabelsAt(f)>>

\* C16: after any sequence of calls of animate, the line, the scatter
\* offsets, the start and current markers, the info text and the year labels
\* after animate(f) depend only on f and the dataset; the labels on the axes
\* are exactly those of frame f, those of the frame before being removed.
C16_FrameDeterminism == Running => Shown = ShownAt(frame)

\* frame 0 drawn after a frame that had put labels and colours
C16_Witness ==
    /\ Running /\ N = 3 /\ frame = 0 /\ colors # <<>>
    /\ ax_texts = <<>> /\ line = <<>>

UniqueYears == \A a, b \in 1..Len(years) : years[a] = years[b] => a = b

\* the colours of the scatter as the last call of animate with frame >= 1 set them
ColoursDrawn == policy = "B" /\ pc = "running" /\ frame >= 1 /\ UniqueYears

ColourInRange(k) ==
    /\ IsFinite(colors[k])
    /\ FracLE(FracInt(0), colors[k]) /\ FracLE(colors[k], FracInt(1))
    /\ years[k] = SeqMin(years) => FracEQ(colors[k], FracInt(0))
    /\ years[k] = SeqMax(years) => FracEQ(colors[k], FracInt(1))

C17_ColourFractionSorted ==
    (ColoursDrawn /\ Len(years) >= 2 /\ \A k \in 1..(Len(years) - 1) : years[k] < years[k + 1])
        => \A k \in 1..Len(colors) : ColourInRange(k)

(* ================== properties of the plotting scripts ================ *)

Printed(msg) == \E i \in 1..Len(console) : console[i] = msg

NothingDrawn ==
    /\ years = <<>> /\ angles = <<>> /\ radii = <<>> /\ total_frames = 0 /\ frame = -1
    /\ line = <<>> /\ points = <<>> /\ start_point = <<>> /\ current_point = <<>>
    /\ year_texts = <<>> /\ ax_texts = <<>> /\ info_text = [kind |-> "empty"]

NothingAnalyzed ==
    an_df = <<>> /\ fig1 = <<>> /\ fig2 = <<>> /\ report = <<>> /\ outputs = <<>>

\* C11: when the CSV file is absent, loading gives no dataset, the script
\* reports it and returns without plotting or writing anything, and no
\* exception propagates; for both animators and for the analyzer's main.
C11_MissingFile ==
    /\ (pc # "idle" /\ ~file.exists) =>
          /\ pc \in {"start", "returned"}
          /\ pc = "returned" => Printed("Data file not found!")
          /\ NothingDrawn
    /\ (an_pc # "idle" /\ Len(disk) = 0) =>
          /\ an_pc \in {"start", "returned"}
          /\ an_pc = "returned" => Printed("No data files found")
          /\ NothingAnalyzed

C11_Witness ==
    /\ ~file.exists /\ pc = "returned" /\ Len(disk) = 0 /\ an_pc = "returned"
    /\ Len(console) = 2 /\ NothingDrawn /\ NothingAnalyzed

(* ====================== properties of the analyzer ==================== *)

\* the years of decade d that have a mean sea level in the loaded file
ObservedYears(d) ==
    {an_df[i].Year : i \in {j \in 1..Len(an_df) :
        an_df[j].Year - (an_df[j].Year % 10) = d /\ an_df[j].Mean_Sea_Level_m # None}}

ShownDecades(stats) == {st.decade : st \in stats}

\* the displayed decades are those of at least 5 observed years, with that count
FilterOf(stats) ==
    /\ \A d \in {2010, 2020} : d \in ShownDecades(stats) <=> Cardinality(ObservedYears(d)) >= 5
    /\ \A st \in stats : st.decade \in {2010, 2020}
                          /\ st.count = Cardinality(ObservedYears(st.decade))

\* C12: rows are grouped by floor(year / 10) * 10, and a decade is in the
\* decadal bar chart and in the DECADAL AVERAGES of the report exactly when
\* it has at least 5 rows with a mean sea level.
C12_DecadalFilter ==
    /\ fig1 # <<>> => FilterOf(fig1[1].decades)
    /\ report # <<>> => FilterOf(report[1].decades) /\ report[1].decades = fig1[1].decades

\* a report that shows the 2020s and leaves out the 2010s row that the file holds
C12_Witness ==
    /\ report # <<>> /\ fig1 # <<>>
    /\ ShownDecades(report[1].decades) = {2020}
    /\ ShownDecades(fig1[1].decades) = {2020}
    /\ Cardinality(ObservedYears(2010)) = 1

\* the dataset of the example: 2020..2024 with 1.30, 1.32, 1.35, 1.33, 1.38
ExampleDataset ==
    /\ YearsOf(an_df) = <<2020, 2021, 2022, 2023, 2024>>
    /\ LevelsOf(an_df) = <<Some(1300), Some(1320), Some(1350), Some(1330), Some(1380)>>

SlopePositive(q) == FracLT(FracInt(0), q)

\* C13 as stated: on the example dataset the fitted slope is positive and
\* the decadal filter excludes the 2020s group.
C13_Excludes2020s ==
    ExampleDataset =>
        /\ fig1 # <<>> => /\ SlopePositive(fig1[1].slope)
                          /\ 2020 \notin ShownDecades(fig1[1].decades)
        /\ report # <<>> => /\ SlopePositive(report[1].slope)
                            /\ 2020 \notin ShownDecades(report[1].decades)

\* C13 (amended): on the example dataset the fitted slope is positive
\* (17 mm a year) and the 2020s group, which has exactly 5 observed years,
\* passes the decadal filter and is displayed, in the chart and in the report.
C13_Includes2020s ==
    ExampleDataset =>
        /\ an_pc # "raised"
        /\ fig1 # <<>> => /\ SlopePositive(fig1[1].slope)
                          /\ FracEQ(fig1[1].slope, FracInt(17))
                          /\ ShownDecades(fig1[1].decades) = {2020}
        /\ report # <<>> => /\ SlopePositive(report[1].slope)
                            /\ ShownDecades(report[1].decades) = {2020}
                            /\ \A st \in report[1].decades : st.count = 5

C13_Witness ==
    /\ ExampleDataset /\ an_pc = "done"
    /\ ShownDecades(report[1].decades) = {2020}
    /\ SlopePositive(report[1].slope)

CompleteRow(row) == \A col \in LevelColumns : row[col] # None

\* C14: the rows that enter the correlation matrix of the five level columns
\* are exactly the rows where all five are present; a row missing one of
\* them enters no entry of the matrix.
C14_CorrelationRows ==
    fig2 # <<>> =>
        \A a, b \in LevelColumns :
            fig2[1].corr[a][b] = {an_df[i].Year : i \in {j \in 1..Len(an_df) : CompleteRow(an_df[j])}}

Loaded == an_pc \notin {"idle", "start", "returned"}

ComprehensivePng == "HKO_Comprehensive_SeaLevel_Analysis.png"

TidalPng == "HKO_Detailed_Tidal_Analysis.png"

ReportTxt == "HKO_SeaLevel_Analysis_Report.txt"

SomeLevel == \E i \in 1..Len(an_df) : an_df[i].Mean_Sea_Level_m # None

OutputsAsClaimed ==
    /\ an_pc # "raised"
    /\ an_pc = "done" =>
          outputs = IF Len(CompleteData(an_df)) = 0
                    THEN <<ComprehensivePng, ReportTxt>>
                    ELSE <<ComprehensivePng, TidalPng, ReportTxt>>
    /\ (Len(CompleteData(an_df)) = 0 /\ an_pc \in {"fig2_none", "reported", "done"})
          => (fig2 = None /\ Printed("No complete tidal data available"))

\* C15: for a loaded dataset with no row that has both higher-high and
\* lower-low water, only the tide-component PNG is skipped: the comprehensive
\* PNG and the report are saved and main completes without error; with
\* complete tidal rows all three outputs are saved, in the order
\* comprehensive figure, tide-component figure, report.
C15_IndependentOutputs == (Loaded /\ SomeLevel) => OutputsAsClaimed

\* the same for the files that hold a row of 2020 and a row of 2024
C15_OutputsWithRecentYears ==
    (Loaded /\ SomeLevel /\ HasYear(an_df, Year2020) /\ HasYear(an_df, Year2024))
        => OutputsAsClaimed

Observed == SelectSeq(an_df, LAMBDA row : row.Mean_Sea_Level_m # None)

\* the fit over the rows that have a mean sea level
TrendOverObserved(q) ==
    /\ Len(Observed) >= 2 => IsFinite(q)
    /\ Len(Observed) >= 2 => FracEQ(q, PolyfitSlope(YearsOf(Observed), LevelsOf(Observed)))

\* C19: the linear fit and the year-over-year deltas use only the rows with
\* a mean sea level; a row with a missing level does not enter the fit, and
\* the slope is a defined number as soon as two rows have a level.
C19_TrendInput ==
    /\ fig1 # <<>> =>
          /\ TrendOverObserved(fig1[1].slope)
          /\ Len(Observed) >= 2 =>
                \E i \in 1..Len(fig1[1].change) : fig1[1].change[i] # None
    /\ report # <<>> => TrendOverObserved(report[1].slope)

\* the same for the files where no mean sea level is missing
C19_TrendWhenNoneMissing ==
    (Len(Observed) = Len(an_df)) =>
        /\ fig1 # <<>> => TrendOverObserved(fig1[1].slope)
        /\ report # <<>> => TrendOverObserved(report[1].slope)

(* ======================= properties of the crawler ==================== *)

RequestFails ==
    response.kind = "conn_error" \/ (response.status >= 400 /\ response.status < 600)

BodyNotJson == ~RequestFails /\ ~response.body.json_ok

NoQubStation ==
    /\ ~RequestFails /\ response.body.json_ok /\ response.body.has_tide
    /\ \A k \in 1..Len(response.body.stations) : response.body.stations[k].code # "QUB"

\* the JSON has no 'tide' key, hence no station at all
NoTideKey == ~RequestFails /\ response.body.json_ok /\ ~response.body.has_tide

ReturnedNone == cpc = "returned" /\ result = None

\* C7: when the request fails, the body is not JSON or no station has code
\* QUB, the function reports the error and returns None, and no exception
\* reaches the caller.
C7_FailureReturnsNone ==
    /\ cpc # "raised"
    /\ (RequestFails /\ cpc # "start")
          => (ReturnedNone /\ reported = <<"Network error">>)
    /\ (BodyNotJson /\ cpc \notin {"start", "got"})
          => (ReturnedNone /\ Len(reported) = 1
              /\ reported[1] \in {"Network error", "JSON parsing error", "Unexpected error"})
    /\ (NoQubStation /\ cpc \notin {"start", "got", "parsed"})
          => (ReturnedNone /\ reported = <<"QUB station data not found">>)
    /\ (NoTideKey /\ cpc \notin {"start", "got", "parsed"})
          => (ReturnedNone /\ reported = <<"Unexpected error">>)
    /\ (RequestFails \/ BodyNotJson \/ NoQubStation \/ NoTideKey)
          => (csv_file = <<>> /\ simple_file = <<>> /\ meta_file = <<>>)

C7_Witness == BodyNotJson /\ ReturnedNone /\ reported = <<"JSON parsing error">>

YearData == qub_data[1].yearData

HasFrame == cpc \in {"processed", "csv_written", "simple_written"}
            \/ (cpc = "returned" /\ result # None)

\* the row of the DataFrame built from record k of the payload
RowOf(k) == CHOOSE row \in {df[j] : j \in 1..Len(df)} : row.index = k - 1

IsNumeric(s) ==
    /\ Len(s) >= 1 /\ \E i \in 1..Len(s) : IsDigit(s[i])
    /\ \A i \in 1..Len(s) : IsDigit(s[i]) \/ s[i] = "."
    /\ Cardinality({i \in 1..Len(s) : s[i] = "."}) <= 1

WellFormed(rec) ==
    /\ AllDigits(rec[1]) /\ Len(rec[1]) >= 1
    /\ \A p \in 2..6 : rec[p] = Sentinel \/ IsNumeric(rec[p])

\* the rows of the detailed file that have a mean sea level, as (Year, MSL)
RowsWithLevel(lines) ==
    LET kept == SelectSeq(lines, LAMBDA l : l[2] # None)
    IN  [k \in 1..Len(kept) |-> <<kept[k][1], kept[k][2]>>]

\* C8: a record whose mean_sea_level is "***" gives a row with a missing
\* level: no parse error, the run goes on, the row is in the detailed file
\* and not in the simplified file, which holds every row with a level.
C8_Sentinel ==
    /\ (cpc = "returned" /\ qub_data # <<>> /\ Len(YearData) >= 1
        /\ \A k \in 1..Len(YearData) : WellFormed(YearData[k]))
          => (result # None /\ reported = <<>>)
    /\ HasFrame =>
          /\ Len(df) = Len(YearData)
          /\ \A k \in 1..Len(YearData) :
                YearData[k][2] = Sentinel => RowOf(k).Mean_Sea_Level_m = None
    /\ csv_file # <<>> =>
          /\ Len(csv_file[1]) = Len(YearData)
          /\ \A j \in 1..Len(df) :
                csv_file[1][j][1] = df[j].Year /\ csv_file[1][j][2] = df[j].Mean_Sea_Level_m
    /\ simple_file # <<>> => simple_file[1] = RowsWithLevel(csv_file[1])
    /\ (cpc = "returned" /\ result # None) => (csv_file # <<>> /\ simple_file # <<>>)

C8_Witness ==
    /\ cpc = "returned" /\ result # None
    /\ \E k \in 1..Len(YearData) : YearData[k][2] = Sentinel
    /\ Len(csv_file[1]) = 2 /\ Len(simple_file[1]) = 1

\* C9: a run sends exactly one GET and never a second one, and a failed
\* request ends the run with no result.
C9_SingleRequest ==
    /\ get_count <= 1
    /\ cpc # "start" => get_count = 1
    /\ (RequestFails /\ get_count >= 1) => ReturnedNone

C9_Witness == RequestFails /\ get_count = 1 /\ ReturnedNone

FieldNames == <<"Year", "Mean_Sea_Level_m", "Mean_Higher_High_Water_m",
                "Mean_Lower_High_Water_m", "Mean_Higher_Low_Water_m",
                "Mean_Lower_Low_Water_m">>

\* C10: record k of station QUB, [year, msl, mhhw, mlhw, mhlw, mllw], gives
\* one row whose Year is the integer at position 0 and whose five level
\* columns are the numbers at positions 1..5 where these are not the
\* sentinel; ["2024","1.410","1.750","1.520","0.880","0.650"] gives
\* {2024, 1.410, 1.750, 1.520, 0.880, 0.650}.
C10_RecordMapping ==
    HasFrame =>
        /\ Len(df) = Len(YearData)
        /\ \A k \in 1..Len(YearData) :
              /\ Cardinality({j \in 1..Len(df) : df[j].index = k - 1}) = 1
              /\ RowOf(k).Year = PyInt(YearData[k][1]).value
              /\ \A p \in 2..6 :
                    /\ IsNumeric(YearData[k][p])
                          => RowOf(k)[FieldNames[p]] = Some(PyFloat(YearData[k][p]).value)
                    /\ YearData[k][p] = Sentinel => RowOf(k)[FieldNames[p]] = None
              /\ YearData[k] = ExampleRecord =>
                    RowOf(k) = [index |-> k - 1, Year |-> 2024,
                                Mean_Sea_Level_m |-> <<1410>>,
                                Mean_Higher_High_Water_m |-> <<1750>>,
                                Mean_Lower_High_Water_m |-> <<1520>>,
                                Mean_Higher_Low_Water_m |-> <<880>>,
                                Mean_Lower_Low_Water_m |-> <<650>>]

C10_Witness ==
    /\ HasFrame
    /\ \E k \in 1..Len(YearData) : YearData[k] = ExampleRecord
    /\ \E k \in 1..Len(YearData) :
          YearData[k][3] = Sentinel /\ RowOf(k).Mean_Lower_High_Water_m = <<1520>>

\* a record that int() or float() refuses: the year is not an integer, or a
\* field is neither a number, nor the sentinel, nor empty
Unconvertible(rec) ==
    \/ ~(AllDigits(rec[1]) /\ Len(rec[1]) >= 1)
    \/ \E p \in 2..6 : rec[p] \notin {Sentinel, <<>>} /\ ~IsNumeric(rec[p])

\* the station QUB of the answer, where there is one
QubOfResponse ==
    LET st == response.body.stations
    IN  st[CHOOSE k \in 1..Len(st) : st[k].code = "QUB"]

BadRecords ==
    /\ ~RequestFails /\ response.body.json_ok /\ response.body.has_tide /\ ~NoQubStation
    /\ \/ Len(QubOfResponse.yearData) = 0
       \/ \E k \in 1..Len(QubOfResponse.yearData) : Unconvertible(QubOfResponse.yearData[k])

Rejected == RequestFails \/ BodyNotJson \/ NoTideKey \/ NoQubStation \/ BadRecords

FilesWritten == csv_file # <<>> \/ simple_file # <<>> \/ meta_file # <<>>

\* C18: the request, the JSON parsing, the lookup of station QUB and the
\* conversion of every yearly record are all done before the first file is
\* written: a run that fails in one of them (one unconvertible record among
\* valid ones included) returns None and leaves none of the three files.
C18_ValidateBeforeWrite ==
    /\ cpc # "raised"
    /\ ReturnedNone => ~FilesWritten
    /\ Rejected =>
          /\ ~FilesWritten
          /\ cpc \notin {"processed", "csv_written", "simple_written"}
          /\ cpc = "returned" => result = None
    /\ FilesWritten =>
          /\ cpc \in {"csv_written", "simple_written", "returned"}
          /\ csv_file # <<>>
          /\ meta_file # <<>> => simple_file # <<>>

C18_Witness ==
    /\ ReturnedNone /\ qub_data # <<>> /\ Len(YearData) = 2
    /\ ~Unconvertible(YearData[1]) /\ Unconvertible(YearData[2])
    /\ AllDigits(YearData[2][1])
    /\ reported = <<"Unexpected error">>

\* the line of the detailed file that a record of the payload should give
ExpectedLine(rec) ==
    <<PyInt(rec[1]).value>>
    \o [p \in 1..5 |-> IF rec[p + 1] \in {Sentinel, <<>>} THEN None
                        ELSE Some(PyFloat(rec[p + 1]).value)]

Bijections(n) ==
    {f \in [1..n -> 1..n] : \A a, b \in 1..n : f[a] = f[b] => a = b}

Succeeded == cpc = "returned" /\ result # None

\* C20: after a successful run, whatever the order of the records in the
\* payload, the detailed file has exactly one row per record, in
\* non-decreasing Year order; the simplified file is the rows with a mean sea
\* level, in the same order; total_records of the metadata is the number of
\* rows of the detailed file, rows with missing values included.
C20_OutputOrdering ==
    Succeeded =>
        LET rows == csv_file[1]
        IN  /\ Len(rows) = Len(YearData)
            /\ \E f \in Bijections(Len(rows)) :
                  \A j \in 1..Len(rows) : rows[j] = ExpectedLine(YearData[f[j]])
            /\ \A j \in 1..(Len(rows) - 1) : rows[j][1] <= rows[j + 1][1]
            /\ simple_file[1] = RowsWithLevel(rows)
            /\ meta_file[1].total_records = Len(rows)

C20_Witness ==
    /\ Succeeded /\ Len(YearData) = 2
    /\ PyInt(YearData[1][1]).value > PyInt(YearData[2][1]).value
    /\ csv_file[1][1] = ExpectedLine(YearData[2])
    /\ YearData[1][2] = Sentinel /\ Len(simple_file[1]) = 1
    /\ meta_file[1].total_records = 2

====
